---- MODULE Spec2Model ----
(***************************************************************************)
(* vistrace: the strace line parser (src/src/strace.rs, SyscallParser) and *)
(* the producer/consumer pipeline that streams parsed syscalls from the    *)
(* traced child to the display (strace() and ui::read_messages).           *)
(*                                                                         *)
(* A text is a sequence of bytes; a byte is written as a one-character     *)
(* string, and the two bytes of the UTF-8 encoding of U+00E9 are written   *)
(* "xC3" and "xA9".  Indices are 0-based as in the source: the byte at     *)
(* index i of bytes is bytes[i + 1].                                       *)
(***************************************************************************)
EXTENDS Integers, Sequences, FiniteSets, TLC

VARIABLES
    overflow_checks, \* build profile: TRUE = debug (overflow panics), FALSE = release (wraps)
    parsed,          \* parse_syscall of each line the tracer may write, in this build
    bytes,           \* SyscallParser.bytes
    index,           \* SyscallParser.index
    current_name,    \* SyscallParser.current_name
    ret,             \* what the last call on the parser returned
    tcase,           \* the test case the parser was constructed for
    pc,              \* producer: position in strace()
    result,          \* producer: what strace() returned
    tx,              \* the Sender owned by strace(): "open" | "dropped"
    rx,              \* the Receiver owned by the consumer: "open" | "dropped"
    chan,            \* messages in the mpsc channel
    received,        \* messages read_messages has taken from the channel
    linesRead,       \* history: the lines read_line returned
    sent,            \* history: the messages tx.send accepted
    child,           \* the strace child: "none" | "running" | "exited" | "reaped"
    exitCode,        \* the child's exit status
    stderrPipe,      \* lines written to the captured diagnostic stream, not yet read
    stdoutPipe,      \* chunks written to the child's standard output pipe
    stdoutWritten,   \* history: chunks the traced command wrote to standard output
    terminal,        \* chunks that reached the controlling terminal
    nWritten         \* number of lines the child wrote to the diagnostic stream

parserVars == <<bytes, index, current_name, ret, tcase>>
pipeVars == <<pc, result, tx, rx, chan, received, linesRead, sent, child, exitCode,
              stderrPipe, stdoutPipe, stdoutWritten, terminal, nWritten>>
vars == <<overflow_checks, parsed, parserVars, pipeVars>>

-----------------------------------------------------------------------------
(* Characters: Rust's char predicates on a byte read as a char (`as char`). *)

Lower == {"a","b","c","d","e","f","g","h","i","j","k","l","m",
          "n","o","p","q","r","s","t","u","v","w","x","y","z"}
Upper == {"A","B","C","D","E","F","G","H","I","J","K","L","M",
          "N","O","P","Q","R","S","T","U","V","W","X","Y","Z"}
DecDigits == {"0","1","2","3","4","5","6","7","8","9"}

is_ascii_alphabetic(c) == c \in Lower \cup Upper
is_ascii_digit(c) == c \in DecDigits
is_ascii_whitespace(c) == c \in {" ", "\t", "\n", "\r", "\f"}
\* U+00C3 is a letter, U+00A9 is not
is_alphabetic(c) == c \in Lower \cup Upper \cup {"xC3"}
is_alphanumeric(c) == is_alphabetic(c) \/ c \in DecDigits

DigitVal(c) ==
    CASE c = "0" -> 0 [] c = "1" -> 1 [] c = "2" -> 2 [] c = "3" -> 3 [] c = "4" -> 4
      [] c = "5" -> 5 [] c = "6" -> 6 [] c = "7" -> 7 [] c = "8" -> 8 [] c = "9" -> 9
      [] c \in {"a","A"} -> 10 [] c \in {"b","B"} -> 11 [] c \in {"c","C"} -> 12
      [] c \in {"d","D"} -> 13 [] c \in {"e","E"} -> 14 [] c \in {"f","F"} -> 15
      [] OTHER -> 99

\* char::to_digit(radix): <<v>> for Some(v), <<>> for None
to_digit(c, radix) == IF DigitVal(c) < radix THEN <<DigitVal(c)>> ELSE <<>>

\* std::str::from_utf8 on this alphabet: xC3 leads a two-byte sequence, xA9 continues one
Utf8Valid(s) ==
    \A k \in 1..Len(s) :
        /\ (s[k] = "xC3" => (k < Len(s) /\ s[k + 1] = "xA9"))
        /\ (s[k] = "xA9" => (k > 1 /\ s[k - 1] = "xC3"))

-----------------------------------------------------------------------------
(* i64: four 16-bit limbs, least significant first, two's complement.      *)

Limb == 65536
SignLimb == 32768

I64(n) == <<n % Limb, n \div Limb, 0, 0>>
I64Zero == <<0, 0, 0, 0>>
I64Min == <<0, 0, 0, SignLimb>>
IsNegative(x) == x[4] >= SignLimb

\* x * m for 0 <= m <= 16: the wrapped product, and whether a non-negative x overflowed
MulSmall(x, m) ==
    LET a1 == x[1] * m
        a2 == x[2] * m + (a1 \div Limb)
        a3 == x[3] * m + (a2 \div Limb)
        a4 == x[4] * m + (a3 \div Limb)
    IN  [val |-> <<a1 % Limb, a2 % Limb, a3 % Limb, a4 % Limb>>,
         overflow |-> a4 >= SignLimb]

\* x + a for 0 <= a < 16: the wrapped sum, and whether a non-negative x overflowed
AddSmall(x, a) ==
    LET a1 == x[1] + a
        a2 == x[2] + (a1 \div Limb)
        a3 == x[3] + (a2 \div Limb)
        a4 == x[4] + (a3 \div Limb)
    IN  [val |-> <<a1 % Limb, a2 % Limb, a3 % Limb, a4 % Limb>>,
         overflow |-> a4 >= SignLimb]

\* -1 * x, wrapped
Negate(x) ==
    LET a1 == (Limb - 1 - x[1]) + 1
        a2 == (Limb - 1 - x[2]) + (a1 \div Limb)
        a3 == (Limb - 1 - x[3]) + (a2 \div Limb)
        a4 == (Limb - 1 - x[4]) + (a3 \div Limb)
    IN  <<a1 % Limb, a2 % Limb, a3 % Limb, a4 % Limb>>

-----------------------------------------------------------------------------
(* Results: Result<T> is Ok or Err; a panic unwinds through every caller.  *)

Ok(i, v) == [st |-> "Ok", index |-> i, v |-> v]
Err(i, m) == [st |-> "Err", index |-> i, v |-> m]
Panic(i, m) == [st |-> "Panic", index |-> i, v |-> m]

NoChar == "None"
None == <<>>
Some(x) == <<x>>

-----------------------------------------------------------------------------
(* SyscallParser: the primitives.                                          *)

done(b, i) == i >= Len(b)
read(b, i) == IF done(b, i) THEN NoChar ELSE b[i + 1]
read_no_eof(b, i) == IF read(b, i) = NoChar THEN Err(i, "end of file") ELSE Ok(i, read(b, i))
read_two(b, i) ==
    <<IF i < Len(b) THEN b[i + 1] ELSE NoChar, IF i + 1 < Len(b) THEN b[i + 2] ELSE NoChar>>
advance(i) == i + 1
advance_n(i, n) == i + n
skip(b, i, c) == IF read(b, i) = c THEN advance(i) ELSE i

\* (len - index) >= prefix.len() && bytes[index..index + prefix.len()] == prefix:
\* with index > len the usize subtraction overflows (debug) or the slice is out of range
starts_with(b, i, prefix) ==
    IF i > Len(b) THEN Panic(i, "index out of range")
    ELSE Ok(i, (Len(b) - i) >= Len(prefix) /\ SubSeq(b, i + 1, i + Len(prefix)) = prefix)

\* from_utf8(&bytes[start..end])?.to_string()
slice_str(b, start, end) ==
    IF start > end \/ end > Len(b) THEN Panic(end, "slice index out of range")
    ELSE IF ~Utf8Valid(SubSeq(b, start + 1, end)) THEN Err(end, "invalid utf-8")
    ELSE Ok(end, SubSeq(b, start + 1, end))

require(b, i, expected) ==
    LET a == read_no_eof(b, i)
    IN  IF a.st # "Ok" THEN a
        ELSE IF a.v # expected THEN Err(i, <<"expected", expected, "got", a.v>>)
        ELSE Ok(advance(i), expected)

-----------------------------------------------------------------------------
(* Values (SyscallArgValue, FlagSetValue, SyscallArg, Syscall).            *)

Quoted(text, truncated) == [type |-> "Quoted", text |-> text, truncated |-> truncated]
Symbol(s) == [type |-> "Symbol", name |-> s]
FlagSet(fs) == [type |-> "FlagSet", flags |-> fs]
Number(x) == [type |-> "Number", x |-> x]
Product(x, y) == [type |-> "Product", x |-> x, y |-> y]
Array(args) == [type |-> "Array", args |-> args]
Struct(fields) == [type |-> "Struct", fields |-> fields]
FunctionCall(name, args) == [type |-> "FunctionCall", name |-> name, args |-> args]
FlagSymbol(s) == [type |-> "Symbol", name |-> s]
FlagBits(x) == [type |-> "Bits", x |-> x]

positional(value) == [name |-> <<>>, value |-> value]
named(name, value) == [name |-> name, value |-> value]

EmptyMap == [k \in {} |-> positional(Symbol(<<>>))]
\* HashMap::insert that keeps the entry already present
insert_keep_first(m, k, v) == [f \in (DOMAIN m) \cup {k} |-> IF f \in DOMAIN m THEN m[f] ELSE v]

insert(m, k, v) == [f \in (DOMAIN m) \cup {k} |-> IF f = k THEN v ELSE m[f]]

-----------------------------------------------------------------------------
(* Sequencing.  Try is Rust's `?`: an Err (or a panic) of r is returned at *)
(* once, an Ok is handed on.  Both bind their first argument through a     *)
(* singleton set, so that it is evaluated once, before what follows.       *)

Try(r, K(_)) == CHOOSE out \in {IF x.st # "Ok" THEN x ELSE K(x) : x \in {r}} : TRUE
Let(v, K(_)) == CHOOSE out \in {K(x) : x \in {v}} : TRUE

\* the index the scan `while read() is in class { advance }` stops at, from index i
ScanWhile(b, i, In(_)) ==
    IF i >= Len(b) THEN i
    ELSE CHOOSE e \in i..Len(b) :
             /\ \A k \in (i + 1)..e : In(b[k])
             /\ (e = Len(b) \/ ~In(b[e + 1]))

\* A loop of the source: Step is one iteration, from a state [st |-> "Loop", index] to
\* the next such state or to the Result the loop is left with.  n iterations, in order.
Continue(i) == [st |-> "Loop", index |-> i]
RECURSIVE Iterate(_, _, _)
Iterate(Step(_), n, s) ==
    IF n <= 0 THEN s
    ELSE IF n = 1 THEN (IF s.st = "Loop" THEN Step(s) ELSE s)
    ELSE Let(Iterate(Step, n \div 2, s), LAMBDA half : Iterate(Step, n - n \div 2, half))
\* every iteration of these loops advances the index or leaves the loop
Loop(Step(_), b, i) == Iterate(Step, Len(b) + 1 - i, Continue(i))

whitespace(b, i) == ScanWhile(b, i, is_ascii_whitespace)

\* while !self.done(): the index after the first "*/" at or after i, the end without one
CommentBody(b, i) ==
    IF \E j \in i..(Len(b) - 2) : read_two(b, j) = <<"*", "/">>
    THEN advance_n(CHOOSE j \in i..(Len(b) - 2) :
                       /\ read_two(b, j) = <<"*", "/">>
                       /\ \A k \in i..(j - 1) : read_two(b, k) # <<"*", "/">>, 2)
    ELSE IF i >= Len(b) THEN i ELSE Len(b)

comments(b, i) ==
    IF read_two(b, i) = <<"/", "*">> THEN CommentBody(b, advance_n(i, 2)) ELSE i

whitespace_comments(b, i) == whitespace(b, comments(b, whitespace(b, i)))

-----------------------------------------------------------------------------
(* SyscallParser: the token readers with no recursion into arguments.      *)

SymbolLoop(b, start, i) ==
    IF read(b, i) = NoChar THEN Ok(i, "break")
    ELSE IF ~is_alphabetic(read(b, i)) THEN Err(i, "expected to see name")
    ELSE Ok(ScanWhile(b, advance(i), LAMBDA c : is_alphanumeric(c) \/ c = "_"), "break")

consume_symbol(b, i) == Try(SymbolLoop(b, i, i), LAMBDA l : slice_str(b, i, l.index))

\* returns <<radix, index>>
consume_optional_i64_prefix(b, i) ==
    LET two == read_two(b, i)
    IN  IF two = <<"0", "x">> THEN <<16, advance_n(i, 2)>>
        ELSE IF two[1] = "0" /\ two[2] # NoChar /\ is_ascii_digit(two[2]) THEN <<8, advance(i)>>
        ELSE <<10, i>>

\* the index of the first character at or after i that is no digit of the radix
DigitsEnd(b, i, radix) ==
    IF i >= Len(b) THEN i
    ELSE CHOOSE e \in i..Len(b) :
             /\ \A k \in (i + 1)..e : to_digit(b[k], radix) # None
             /\ (e = Len(b) \/ to_digit(b[e + 1], radix) = None)

\* r *= radix as i64; r += v as i64; self.advance()
I64Step(b, radix, acc) ==
    IF acc.st # "Ok" THEN acc
    ELSE Let(MulSmall(acc.v, radix), LAMBDA m :
         IF overflow_checks /\ m.overflow
         THEN Panic(acc.index, "attempt to multiply with overflow")
         ELSE IF overflow_checks /\ AddSmall(m.val, to_digit(b[acc.index + 1], radix)[1]).overflow
         THEN Panic(acc.index, "attempt to add with overflow")
         ELSE Ok(advance(acc.index), AddSmall(m.val, to_digit(b[acc.index + 1], radix)[1]).val))

\* the iterations of the loop over the digits at lo..hi-1, in order
RECURSIVE I64Steps(_, _, _, _, _)
I64Steps(b, lo, hi, radix, acc) ==
    IF lo >= hi THEN acc
    ELSE IF hi = lo + 1 THEN I64Step(b, radix, acc)
    ELSE Let(I64Steps(b, lo, (lo + hi) \div 2, radix, acc), LAMBDA half :
         I64Steps(b, (lo + hi) \div 2, hi, radix, half))

I64Loop(b, i, radix, r) == I64Steps(b, i, DigitsEnd(b, i, radix), radix, Ok(i, r))

consume_i64(b, i) ==
    LET neg == read(b, i) = "-"
        pre == consume_optional_i64_prefix(b, IF neg THEN advance(i) ELSE i)
    IN  Try(I64Loop(b, pre[2], pre[1], I64Zero), LAMBDA l :
        Ok(l.index, IF neg THEN Negate(l.v) ELSE l.v))

\* the scan for the closing quote with no skip over the byte after a backslash
QuotedLoop_no_escape(b, i) ==
    Loop(LAMBDA s : IF read_no_eof(b, s.index).st # "Ok" THEN read_no_eof(b, s.index)
                    ELSE IF read(b, s.index) = "\"" THEN Ok(s.index, "break")
                    ELSE Continue(advance(s.index)),
         b, i)

\* returns the index of the closing quote
QuotedLoop(b, i) ==
    Loop(LAMBDA s : IF read_no_eof(b, s.index).st # "Ok" THEN read_no_eof(b, s.index)
                    ELSE IF read(b, s.index) = "\"" THEN Ok(s.index, "break")
                    ELSE IF read(b, s.index) = "\\" THEN Continue(advance(advance(s.index)))
                    ELSE Continue(advance(s.index)),
         b, i)

consume_quoted(b, i) ==
    IF require(b, i, "\"").st # "Ok" THEN require(b, i, "\"")
    ELSE Try(QuotedLoop(b, advance(i)), LAMBDA l :
         LET truncated == starts_with(b, advance(l.index), <<".", ".", ".">>)
             text == slice_str(b, advance(i), l.index)
         IN  IF truncated.st # "Ok" THEN truncated
             ELSE IF text.st # "Ok" THEN text
             ELSE Ok(IF truncated.v THEN advance_n(advance(l.index), 3) ELSE advance(l.index),
                     [text |-> text.v, truncated |-> truncated.v]))

RECURSIVE FlagsetLoop(_, _, _)
FlagsetLoop(b, i, r) ==
    IF read(b, i) = NoChar THEN Ok(i, r)
    ELSE Try(IF is_ascii_digit(read(b, i)) THEN consume_i64(b, i) ELSE consume_symbol(b, i),
             LAMBDA e :
             IF read(b, e.index) # "|"
             THEN Ok(e.index,
                     Append(r, IF is_ascii_digit(read(b, i)) THEN FlagBits(e.v) ELSE FlagSymbol(e.v)))
             ELSE FlagsetLoop(b, advance(e.index),
                     Append(r, IF is_ascii_digit(read(b, i)) THEN FlagBits(e.v) ELSE FlagSymbol(e.v))))

\* consume_flagset with r started empty
consume_flagset_drop_first(b, i, first) ==
    IF require(b, i, "|").st # "Ok" THEN require(b, i, "|")
    ELSE FlagsetLoop(b, advance(i), <<>>)

consume_flagset(b, i, first) ==
    IF require(b, i, "|").st # "Ok" THEN require(b, i, "|")
    ELSE FlagsetLoop(b, advance(i), <<FlagSymbol(first)>>)

-----------------------------------------------------------------------------
(* SyscallParser: arguments (mutually recursive).                          *)

RECURSIVE consume_arg(_, _), consume_arg_list(_, _), consume_struct(_, _), consume_array(_, _)
RECURSIVE ArgListLoop(_, _, _), StructLoop(_, _, _)

\* the argument after a symbol: decided by the next character
SymbolArg(b, s) ==
    IF read(b, s.index) = "|" THEN
        Try(consume_flagset(b, s.index, s.v), LAMBDA f :
        Ok(f.index, Some(positional(FlagSet(f.v)))))
    ELSE IF read(b, s.index) = "=" THEN
        Try(consume_arg(b, advance(s.index)), LAMBDA a :
        IF a.v = None THEN Err(a.index, "expected argument after '='")
        ELSE Ok(a.index, Some(named(s.v, a.v[1].value))))
    ELSE IF read(b, s.index) = "(" THEN
        Try(consume_arg_list(b, advance(s.index)), LAMBDA l :
        IF require(b, l.index, ")").st # "Ok" THEN require(b, l.index, ")")
        ELSE Ok(advance(l.index), Some(positional(FunctionCall(s.v, l.v)))))
    ELSE Ok(s.index, Some(positional(Symbol(s.v))))

\* the argument that starts with a digit or '-'
NumberArg(b, x) ==
    IF read(b, x.index) = "*" THEN
        Try(consume_i64(b, advance(x.index)), LAMBDA x2 :
        Ok(x2.index, Some(positional(Product(x.v, x2.v)))))
    ELSE Ok(x.index, Some(positional(Number(x.v))))

\* the argument whose first character is at i
ArgAt(b, i) ==
    IF read(b, i) = NoChar \/ read(b, i) = ")" THEN Ok(i, None)
    ELSE IF is_ascii_alphabetic(read(b, i)) THEN
        Try(consume_symbol(b, i), LAMBDA s : SymbolArg(b, s))
    ELSE IF is_ascii_digit(read(b, i)) \/ read(b, i) = "-" THEN
        Try(consume_i64(b, i), LAMBDA x : NumberArg(b, x))
    ELSE IF read(b, i) = "\"" THEN
        Try(consume_quoted(b, i), LAMBDA q :
        Ok(q.index, Some(positional(Quoted(q.v.text, q.v.truncated)))))
    ELSE IF read(b, i) = "{" THEN
        Try(consume_struct(b, i), LAMBDA st :
        Ok(st.index, Some(positional(Struct(st.v)))))
    ELSE IF read(b, i) = "[" THEN
        Try(consume_array(b, i), LAMBDA ar :
        Ok(ar.index, Some(positional(Array(ar.v)))))
    ELSE Err(i, "could not parse arg")

\* Ok(v) carries Some(arg) or None
consume_arg(b, i) ==
    Let(whitespace_comments(b, skip(b, whitespace_comments(b, i), ",")), LAMBDA i3 :
        ArgAt(b, i3))

ArgListLoop(b, i, r) ==
    Let(whitespace_comments(b, skip(b, i, ",")), LAMBDA i2 :
        IF read(b, i2) = NoChar \/ read(b, i2) = "]" THEN Ok(i2, r)
        ELSE Try(consume_arg(b, i2), LAMBDA a :
             IF a.v = None THEN Ok(a.index, r)
             ELSE ArgListLoop(b, a.index, Append(r, a.v[1]))))

consume_arg_list(b, i) == ArgListLoop(b, i, <<>>)

\* one field of a struct, its name starting at i: Ok carries the struct with the field
StructField(b, i, r) ==
    LET field == consume_symbol(b, i)
        eq == require(b, field.index, "=")
    IN  IF field.st # "Ok" THEN field
        ELSE IF eq.st # "Ok" THEN eq
        ELSE Try(consume_arg(b, eq.index), LAMBDA value :
             IF value.v = None
             THEN Err(value.index, <<"struct field missing value", field.v>>)
             ELSE Ok(value.index, insert(r, field.v, value.v[1])))

StructLoop(b, i, r) ==
    Let(whitespace_comments(b, skip(b, i, ",")), LAMBDA i2 :
        IF starts_with(b, i2, <<".", ".", ".">>).st # "Ok"
        THEN starts_with(b, i2, <<".", ".", ".">>)
        ELSE IF starts_with(b, i2, <<".", ".", ".">>).v THEN Ok(advance_n(i2, 3), r)
        ELSE IF read(b, i2) = NoChar THEN Ok(i2, r)
        ELSE IF ~is_alphabetic(read(b, i2)) THEN Ok(i2, r)
        ELSE Try(StructField(b, i2, r), LAMBDA f : StructLoop(b, f.index, f.v)))

consume_struct(b, i) ==
    IF require(b, i, "{").st # "Ok" THEN require(b, i, "{")
    ELSE Try(StructLoop(b, advance(i), EmptyMap), LAMBDA l :
         IF require(b, l.index, "}").st # "Ok" THEN require(b, l.index, "}")
         ELSE Ok(advance(l.index), l.v))

consume_array(b, i) ==
    IF require(b, i, "[").st # "Ok" THEN require(b, i, "[")
    ELSE Try(consume_arg_list(b, advance(i)), LAMBDA l :
         IF require(b, l.index, "]").st # "Ok" THEN require(b, l.index, "]")
         ELSE Ok(advance(l.index), l.v))

-----------------------------------------------------------------------------
(* SyscallParser::parse and parse_syscall.                                 *)

RECURSIVE ParseArgsLoop(_, _, _)
ParseArgsLoop(b, i, args) ==
    Try(consume_arg(b, i), LAMBDA a :
        IF a.v = None THEN Ok(a.index, args)
        ELSE ParseArgsLoop(b, a.index, Append(args, a.v[1])))

Syscall(name, args, return_value, error_details) ==
    [name |-> name, args |-> args, return_value |-> return_value,
     error_details |-> error_details]

\* what follows the arguments: ')' '=' and the return value
ParseReturn(b, name, args) ==
    LET close == require(b, args.index, ")")
        eq == require(b, whitespace_comments(b, close.index), "=")
    IN  IF close.st # "Ok" THEN close
        ELSE IF eq.st # "Ok" THEN eq
        ELSE Try(consume_i64(b, whitespace_comments(b, eq.index)), LAMBDA return_value :
             Ok(return_value.index, Syscall(name.v, args.v, return_value.v, None)))

\* parse, after self.current_name has been set
ParseCall(b, name) ==
    IF require(b, name.index, "(").st # "Ok" THEN require(b, name.index, "(")
    ELSE Try(ParseArgsLoop(b, advance(name.index), <<>>), LAMBDA args :
         ParseReturn(b, name, args))

\* a Result with the parser's current_name beside it
WithName(r, name) == [st |-> r.st, index |-> r.index, v |-> r.v, current_name |-> name]

\* parse with the name held in a local, self.current_name never assigned
parse_name_unset(b) ==
    Let(consume_symbol(b, 0), LAMBDA name :
        IF name.st # "Ok" THEN WithName(name, <<>>)
        ELSE WithName(ParseCall(b, name), <<>>))

parse(b) ==
    Let(consume_symbol(b, 0), LAMBDA name :
        IF name.st # "Ok" THEN WithName(name, <<>>)
        ELSE WithName(ParseCall(b, name), name.v))

\* st = "Ok": the Syscall returned; st = "Panic": the thread panicked inside the call
parse_syscall(text) ==
    Let(parse(text), LAMBDA r :
        IF r.st = "Ok" THEN [st |-> "Ok", v |-> r.v]
        ELSE IF r.st = "Err"
        THEN [st |-> "Ok",
              v |-> Syscall(r.current_name, <<>>, I64Zero,
                            Some([message |-> r.v, fulltext |-> text]))]
        ELSE [st |-> "Panic", v |-> r.v])

-----------------------------------------------------------------------------
(* The lines of the source's own tests (test_syscall_parse, test_syscall_parse_partial). *)

\* close(3) = 0
T_close ==
    <<"c", "l", "o", "s", "e", "(", "3", ")", " ", "=", " ", "0">>

\* openat(AT_FDCWD, "/proc/self/mountinfo", O_RDONLY|O_CLOEXEC) = 3
T_openat ==
    <<"o", "p", "e", "n", "a", "t", "(", "A", "T", "_", "F", "D", "C", "W", "D", ",", " ",
      "\"", "/", "p", "r", "o", "c", "/", "s", "e", "l", "f", "/", "m", "o", "u", "n", "t",
      "i", "n", "f", "o", "\"", ",", " ", "O", "_", "R", "D", "O", "N", "L", "Y", "|", "O",
      "_", "C", "L", "O", "E", "X", "E", "C", ")", " ", "=", " ", "3">>

\* read(3, "# Locale name alias data base.\n#"..., 4096) = 2996
T_read ==
    <<"r", "e", "a", "d", "(", "3", ",", " ", "\"", "#", " ", "L", "o", "c", "a", "l", "e",
      " ", "n", "a", "m", "e", " ", "a", "l", "i", "a", "s", " ", "d", "a", "t", "a", " ",
      "b", "a", "s", "e", ".", "\\", "n", "#", "\"", ".", ".", ".", ",", " ", "4", "0",
      "9", "6", ")", " ", "=", " ", "2", "9", "9", "6">>

\* fstat(1, {st_mode=S_IFIFO|0600, st_size=0, ...}) = 0\n
T_fstat ==
    <<"f", "s", "t", "a", "t", "(", "1", ",", " ", "{", "s", "t", "_", "m", "o", "d", "e",
      "=", "S", "_", "I", "F", "I", "F", "O", "|", "0", "6", "0", "0", ",", " ", "s", "t",
      "_", "s", "i", "z", "e", "=", "0", ",", " ", ".", ".", ".", "}", ")", " ", "=", " ",
      "0", "\n">>

\* execve("/usr/bin/echo", ["echo", "hello", "world"], 0xffffc98f1ef0 /* 61 vars */) = 0\n
T_execve ==
    <<"e", "x", "e", "c", "v", "e", "(", "\"", "/", "u", "s", "r", "/", "b", "i", "n", "/",
      "e", "c", "h", "o", "\"", ",", " ", "[", "\"", "e", "c", "h", "o", "\"", ",", " ",
      "\"", "h", "e", "l", "l", "o", "\"", ",", " ", "\"", "w", "o", "r", "l", "d", "\"",
      "]", ",", " ", "0", "x", "f", "f", "f", "f", "c", "9", "8", "f", "1", "e", "f", "0",
      " ", "/", "*", " ", "6", "1", " ", "v", "a", "r", "s", " ", "*", "/", ")", " ", "=",
      " ", "0", "\n">>

\* read(0, "{\"lol\":42}\n", 8192)         = 11
T_read_json ==
    <<"r", "e", "a", "d", "(", "0", ",", " ", "\"", "{", "\\", "\"", "l", "o", "l", "\\",
      "\"", ":", "4", "2", "}", "\\", "n", "\"", ",", " ", "8", "1", "9", "2", ")", " ",
      " ", " ", " ", " ", " ", " ", " ", " ", "=", " ", "1", "1">>

\* getdents64(3, 0xba02287ca030 /* 9 entries */, 32768) = 280
T_getdents ==
    <<"g", "e", "t", "d", "e", "n", "t", "s", "6", "4", "(", "3", ",", " ", "0", "x", "b",
      "a", "0", "2", "2", "8", "7", "c", "a", "0", "3", "0", " ", "/", "*", " ", "9", " ",
      "e", "n", "t", "r", "i", "e", "s", " ", "*", "/", ",", " ", "3", "2", "7", "6", "8",
      ")", " ", "=", " ", "2", "8", "0">>

\* clone(child_stack=NULL, flags=CLONE_CHILD_CLEARTID|CLONE_CHILD_SETTID|SIGCHLD, child_tidptr=0xef6aae8510f0) = 2077145
T_clone ==
    <<"c", "l", "o", "n", "e", "(", "c", "h", "i", "l", "d", "_", "s", "t", "a", "c", "k",
      "=", "N", "U", "L", "L", ",", " ", "f", "l", "a", "g", "s", "=", "C", "L", "O", "N",
      "E", "_", "C", "H", "I", "L", "D", "_", "C", "L", "E", "A", "R", "T", "I", "D", "|",
      "C", "L", "O", "N", "E", "_", "C", "H", "I", "L", "D", "_", "S", "E", "T", "T", "I",
      "D", "|", "S", "I", "G", "C", "H", "L", "D", ",", " ", "c", "h", "i", "l", "d", "_",
      "t", "i", "d", "p", "t", "r", "=", "0", "x", "e", "f", "6", "a", "a", "e", "8", "5",
      "1", "0", "f", "0", ")", " ", "=", " ", "2", "0", "7", "7", "1", "4", "5">>

\* fstat(2, {st_mode=S_IFCHR|0666, st_rdev=makedev(0x1, 0x3), ...}) = 0
T_fstat_rdev ==
    <<"f", "s", "t", "a", "t", "(", "2", ",", " ", "{", "s", "t", "_", "m", "o", "d", "e",
      "=", "S", "_", "I", "F", "C", "H", "R", "|", "0", "6", "6", "6", ",", " ", "s", "t",
      "_", "r", "d", "e", "v", "=", "m", "a", "k", "e", "d", "e", "v", "(", "0", "x", "1",
      ",", " ", "0", "x", "3", ")", ",", " ", ".", ".", ".", "}", ")", " ", "=", " ", "0">>

\* write(
T_partial ==
    <<"w", "r", "i", "t", "e", "(">>

TestLines == {T_close, T_openat, T_read, T_fstat, T_execve, T_read_json,
              T_getdents, T_clone, T_fstat_rdev, T_partial}

-----------------------------------------------------------------------------
(* Inputs of the parser checks.                                            *)

MaxRawLen == 2
MaxDigits == 2
MaxQuotedLen == 5
MaxFields == 3
MaxArgs == 2

RECURSIVE Rep(_, _)
Rep(c, n) == IF n = 0 THEN <<>> ELSE <<c>> \o Rep(c, n - 1)

RECURSIVE Join(_, _)
Join(parts, sep) ==
    IF Len(parts) = 0 THEN <<>>
    ELSE IF Len(parts) = 1 THEN parts[1]
    ELSE parts[1] \o sep \o Join(Tail(parts), sep)

\* all sequences over alphabet of a length in lo..hi
Strings(alphabet, lo, hi) == UNION {[1..k -> alphabet] : k \in lo..hi}

\* numeric literals at and beyond the ends of the i64 range
HexMax == <<"0", "x", "7">> \o Rep("f", 15)
HexMinMagnitude == <<"0", "x", "8">> \o Rep("0", 15)
HexTooLong == <<"0", "x">> \o Rep("f", 17)
DecMax ==
    <<"9", "2", "2", "3", "3", "7", "2", "0", "3", "6", "8", "5", "4", "7", "7", "5", "8", "0", "7">>
DecMinMagnitude ==
    <<"9", "2", "2", "3", "3", "7", "2", "0", "3", "6", "8", "5", "4", "7", "7", "5", "8", "0", "8">>
DecTooLong == Rep("9", 20)
OctTooLong == <<"0">> \o Rep("7", 22)
LongLiterals == {HexMax, HexMinMagnitude, HexTooLong, DecMax, DecMinMagnitude, DecTooLong,
                 OctTooLong}

LineAlphabet == {"a", "1", ",", "=", "(", ")", "\"", "\\", "-", "|", "{", "}", "[", "]",
                 ".", " ", "/", "*", "xC3", "xA9"}
LinePrefixes == {<<>>, <<"a", "(">>}
LineSuffixes == {<<>>, <<")", "=", "1">>, <<")", " ", "=", " ">>}

EdgeLines ==
    {<<>>, <<"\n">>,
     <<"a", "(", "\"", "\\">>,
     <<"a", "(", "\"", "\"", ".", ".">>,
     <<"a", "(", "/", "*", "x">>,
     <<"a", "(", "{", "a", "=", "1", ",", " ", ".", ".", ".", "}", ")", " ", "=", " ", "-", "1">>,
     <<"xC3", "xA9", "(", ")">>,
     <<"a", "(", "1", " ", "2", ")", " ", "=", " ", "0">>,
     <<"a", "(", ",", "a", ",", "b", ")", " ", "=", " ", "0">>}
       \cup {<<"a", "(">> \o l \o <<")", " ", "=", " ", "0">> : l \in LongLiterals}
       \cup {<<"a", "(", ")", " ", "=", " ", "-">> \o l : l \in LongLiterals}

LineInputs ==
    TestLines \cup EdgeLines
      \cup {p \o body \o s : p \in LinePrefixes, s \in LineSuffixes,
                               body \in Strings(LineAlphabet, 0, MaxRawLen)}

\* well-formed numeric literals, by structure: sign, radix, digits, and what follows
LiteralDigits(radix) ==
    IF radix = 16 THEN {"0", "9", "a", "f", "F"}
    ELSE IF radix = 8 THEN {"0", "1", "7"}
    ELSE {"0", "1", "9"}
LiteralTails == {<<>>, <<" ", "a", "b", "c">>, <<")">>, <<"*", "2">>, <<",">>, <<"|">>}
Literals ==
    {[neg |-> n, radix |-> r, digits |-> d, tail |-> t] :
        n \in BOOLEAN, r \in {8, 10, 16}, t \in LiteralTails,
        d \in UNION {Strings(LiteralDigits(x), 1, MaxDigits) : x \in {8, 10, 16}}}
WellFormedLiteral(l) ==
    /\ \A k \in 1..Len(l.digits) : l.digits[k] \in LiteralDigits(l.radix)
    /\ (l.radix = 10 /\ Len(l.digits) > 1 => l.digits[1] # "0")
LiteralPrefix(radix) ==
    IF radix = 16 THEN <<"0", "x">> ELSE IF radix = 8 THEN <<"0">> ELSE <<>>
LiteralText(l) == (IF l.neg THEN <<"-">> ELSE <<>>) \o LiteralPrefix(l.radix) \o l.digits

\* literals near the ends of the i64 range, each with its value
BigLiterals ==
    {[text |-> HexMax, expect |-> <<65535, 65535, 65535, 32767>>],
     [text |-> <<"-">> \o HexMax, expect |-> <<1, 0, 0, 32768>>],
     [text |-> DecMax, expect |-> <<65535, 65535, 65535, 32767>>],
     [text |-> <<"-">> \o HexMinMagnitude, expect |-> I64Min],
     [text |-> <<"-">> \o DecMinMagnitude, expect |-> I64Min],
     [text |-> <<"0", "x", "f", "f", "f", "f", "c", "9", "8", "f", "1", "e", "f", "0">>,
      expect |-> <<7920, 51599, 65535, 0>>],
     [text |-> <<"0", "6", "0", "0">>, expect |-> I64(384)],
     [text |-> <<"1", "2", "3", "4", "5">>, expect |-> I64(12345)],
     [text |-> <<"-", "8", "9", "1", "0">>, expect |-> <<56626, 65535, 65535, 65535>>]}

\* quoted strings: an opening quote followed by any text over these bytes
QuotedAlphabet == {"\"", "\\", "a", "."}
QuotedTexts ==
    {<<"\"">> \o body : body \in Strings(QuotedAlphabet, 0, MaxQuotedLen)}
      \cup {<<"\"", "h", "e", "l", "l", "o", "\"">>, <<"\"", "\"", ".", ".", ".">>,
            <<"\"", "a", "\\", "\"", "b", "\"", ".", ".", ".", ",">>,
            <<"\"", "xC3", "xA9", "\\", "xC3", "xA9", "\"">>}

\* values with the argument each is to parse to
ValueForms ==
    {[text |-> <<"N", "U", "L", "L">>, value |-> Symbol(<<"N", "U", "L", "L">>)],
     [text |-> <<"0", "x", "1", "0">>, value |-> Number(I64(16))],
     [text |-> <<"\"", "s", "\"", ".", ".", ".">>, value |-> Quoted(<<"s">>, TRUE)],
     [text |-> <<"S", "_", "I", "F", "I", "F", "O", "|", "0", "6", "0", "0">>,
      value |-> FlagSet(<<FlagSymbol(<<"S", "_", "I", "F", "I", "F", "O">>),
                          FlagBits(I64(384))>>)]}

\* structs, by structure: the fields in textual order, and whether '...' ends them
FieldNames == {<<"a">>, <<"s", "t", "_", "m", "o", "d", "e">>}
Fields == {[name |-> n, val |-> v] : n \in FieldNames, v \in ValueForms}
Structs == {[fields |-> f, elided |-> e] : f \in Strings(Fields, 0, MaxFields), e \in BOOLEAN}
FieldText(f) == f.name \o <<"=">> \o f.val.text
StructText(s) ==
    <<"{">> \o Join([k \in 1..Len(s.fields) |-> FieldText(s.fields[k])]
                      \o (IF s.elided THEN <<(<<".", ".", ".">>)>> ELSE <<>>),
                    <<",", " ">>) \o <<"}">>

\* arguments that start with a symbol, by structure, with the argument each is to parse to
FlagItems ==
    {[text |-> <<"B", "_", "2">>, flag |-> FlagSymbol(<<"B", "_", "2">>)],
     [text |-> <<"0", "6", "0", "0">>, flag |-> FlagBits(I64(384))],
     [text |-> <<"0", "x", "1", "f">>, flag |-> FlagBits(I64(31))]}
ArgSymbols == {<<"A">>, <<"O", "_", "R", "D", "O", "N", "L", "Y">>}
BareForms == {[text |-> s, arg |-> positional(Symbol(s))] : s \in ArgSymbols}
FlagSetForms ==
    {[text |-> s \o <<"|">> \o Join([k \in 1..Len(items) |-> items[k].text], <<"|">>),
      arg |-> positional(FlagSet(<<FlagSymbol(s)>> \o [k \in 1..Len(items) |-> items[k].flag]))] :
        s \in ArgSymbols, items \in Strings(FlagItems, 1, MaxArgs)}
NamedForms ==
    {[text |-> s \o <<"=">> \o v.text, arg |-> named(s, v.value)] :
        s \in ArgSymbols, v \in ValueForms}
CallForms ==
    {[text |-> s \o <<"(">> \o Join([k \in 1..Len(vs) |-> vs[k].text], <<",", " ">>) \o <<")">>,
      arg |-> positional(FunctionCall(s, [k \in 1..Len(vs) |-> positional(vs[k].value)]))] :
        s \in ArgSymbols, vs \in Strings(ValueForms, 0, MaxArgs)}
ArgForms == BareForms \cup FlagSetForms \cup NamedForms \cup CallForms
ArgFollows == {<<>>, <<",", " ", "1">>, <<")">>, <<" ", "=">>}

\* whole lines whose arguments are a sequence of such forms
LineForms ==
    {[text |-> <<"A">>, arg |-> positional(Symbol(<<"A">>))],
     [text |-> <<"A", "|", "B", "|", "0", "7">>,
      arg |-> positional(FlagSet(<<FlagSymbol(<<"A">>), FlagSymbol(<<"B">>), FlagBits(I64(7))>>))],
     [text |-> <<"f", "d", "=", "3">>, arg |-> named(<<"f", "d">>, Number(I64(3)))],
     [text |-> <<"g", "(", "1", ",", " ", "A", ")">>,
      arg |-> positional(FunctionCall(<<"g">>, <<positional(Number(I64(1))),
                                                  positional(Symbol(<<"A">>))>>))]}
ArgLines == Strings(LineForms, 1, MaxArgs)
ArgLineText(forms) ==
    <<"f", "(">> \o Join([k \in 1..Len(forms) |-> forms[k].text], <<",", " ">>)
       \o <<")", " ", "=", " ", "0">>

-----------------------------------------------------------------------------
(* The parser on its own: a SyscallParser is constructed over one text and *)
(* one of its methods is called once, as the source's tests do.            *)

\* texts of whitespace, comments whole and broken, and other characters
MaxSkipParts == 3
T_advance_whitespace ==
    <<" ", " ", "/", "*", " ", "o", "n", "e", " ", "c", "o", "m", "m", "e", "n", "t", " ",
      "*", "/", " ", " ", " ", "a", "b", " ", " ", " ", " ">>
SkipPieces == {<<" ">>, <<"a">>, <<"/">>, <<"/", "*">>, <<"*", "/">>,
               <<"/", "*", "*", "/">>, <<"/", "*", " ", "a", "*", "/">>}
SkipTexts ==
    {Join(parts, <<>>) : parts \in Strings(SkipPieces, 0, MaxSkipParts)}
      \cup {T_advance_whitespace}
SkipCases == UNION {{[text |-> x, at |-> k] : k \in 0..Len(x)} : x \in SkipTexts}

New == [st |-> "New"]
NoCase == [kind |-> "none"]

PipeIdle ==
    /\ pc = "spawn" /\ result = "none" /\ tx = "open" /\ rx = "open"
    /\ chan = <<>> /\ received = <<>> /\ linesRead = <<>> /\ sent = <<>>
    /\ child = "none" /\ exitCode = 0 /\ stderrPipe = <<>> /\ stdoutPipe = 0
    /\ stdoutWritten = 0 /\ terminal = 0 /\ nWritten = 0

\* SyscallParser::new(text)
ParserNew(text) == bytes = text /\ index = 0 /\ current_name = <<>> /\ ret = New

ParserInit ==
    /\ overflow_checks \in BOOLEAN
    /\ parsed = <<>>
    /\ PipeIdle
    /\ \/ \E t \in LineInputs : tcase = [kind |-> "line", src |-> t] /\ ParserNew(t)
       \/ \E f \in ArgLines : tcase = [kind |-> "args", src |-> f] /\ ParserNew(ArgLineText(f))
       \/ \E l \in {x \in Literals : WellFormedLiteral(x)} :
              tcase = [kind |-> "i64", src |-> l] /\ ParserNew(LiteralText(l) \o l.tail)
       \/ \E l \in BigLiterals : tcase = [kind |-> "i64big", src |-> l] /\ ParserNew(l.text)
       \/ \E q \in QuotedTexts : tcase = [kind |-> "quoted", src |-> q] /\ ParserNew(q)
       \/ \E st \in Structs : tcase = [kind |-> "struct", src |-> st] /\ ParserNew(StructText(st))
       \/ \E f \in ArgForms, t \in ArgFollows :
              tcase = [kind |-> "arg", src |-> [form |-> f, follow |-> t]]
                /\ ParserNew(f.text \o t)
       \/ \E s \in SkipCases :
              /\ tcase = [kind |-> "skip", src |-> s]
              /\ bytes = s.text /\ index = s.at /\ current_name = <<>> /\ ret = New

\* a method returned r (or panicked): the parser is left at r.index
Returned(r) ==
    /\ \E x \in {r} : ret' = x /\ index' = x.index
    /\ UNCHANGED <<overflow_checks, parsed, bytes, current_name, tcase, pipeVars>>

CallParseSyscall ==
    /\ tcase.kind \in {"line", "args"} /\ ret = New
    /\ ret' = parse_syscall(bytes)
    /\ \E r \in {parse(bytes)} : index' = r.index /\ current_name' = r.current_name
    /\ UNCHANGED <<overflow_checks, parsed, bytes, tcase, pipeVars>>

CallConsumeI64 ==
    /\ tcase.kind \in {"i64", "i64big"} /\ ret = New
    /\ Returned(consume_i64(bytes, index))

CallConsumeQuoted ==
    /\ tcase.kind = "quoted" /\ ret = New
    /\ Returned(consume_quoted(bytes, index))

CallConsumeStruct ==
    /\ tcase.kind = "struct" /\ ret = New
    /\ Returned(consume_struct(bytes, index))

CallConsumeArg ==
    /\ tcase.kind = "arg" /\ ret = New
    /\ Returned(consume_arg(bytes, index))

CallWhitespaceComments ==
    /\ tcase.kind = "skip" /\ ret = New
    /\ Returned(Ok(whitespace_comments(bytes, index), <<>>))

ParserNext ==
    \/ CallParseSyscall
    \/ CallConsumeI64
    \/ CallConsumeQuoted
    \/ CallConsumeStruct
    \/ CallConsumeArg
    \/ CallWhitespaceComments

ParserSpec == ParserInit /\ [][ParserNext]_vars

-----------------------------------------------------------------------------
(* The grammar of the specification, as a recogniser: each G operator is   *)
(* the set of indices at which an instance starting at index i can end.    *)
(*   line    := symbol "(" arglist ")" "=" integer                          *)
(*   arglist := empty | arg { "," arg }      arg := [ symbol "=" ] value    *)
(* with whitespace and comments allowed between any two tokens.            *)

HexDigits == DecDigits \cup {"a", "b", "c", "d", "e", "f", "A", "B", "C", "D", "E", "F"}
SetMin(S) == CHOOSE x \in S : \A y \in S : x <= y

\* the end of the longest run of bytes of `class` that starts at index i
RunEnd(b, i, class) ==
    CHOOSE e \in i..Len(b) :
        /\ \A k \in (i + 1)..e : b[k] \in class
        /\ (e = Len(b) \/ b[e + 1] \notin class)

CommentEnds(b, i) == {j \in (i + 4)..Len(b) : b[j - 1] = "*" /\ b[j] = "/"}

RECURSIVE GSkip(_, _)
GSkip(b, i) ==
    IF read(b, i) # NoChar /\ is_ascii_whitespace(read(b, i)) THEN GSkip(b, i + 1)
    ELSE IF read_two(b, i) = <<"/", "*">> /\ CommentEnds(b, i) # {}
    THEN GSkip(b, SetMin(CommentEnds(b, i)))
    ELSE i

GSymbol(b, i) ==
    IF read(b, i) \in Lower \cup Upper
    THEN {RunEnd(b, i, Lower \cup Upper \cup DecDigits \cup {"_"})}
    ELSE {}

\* '-'? ('0x' hex+ | digit+), at least one digit
GDigits(b, i) ==
    (IF RunEnd(b, i, DecDigits) > i THEN {RunEnd(b, i, DecDigits)} ELSE {})
      \cup (IF read_two(b, i) = <<"0", "x">> /\ RunEnd(b, i + 2, HexDigits) > i + 2
            THEN {RunEnd(b, i + 2, HexDigits)} ELSE {})
GInteger(b, i) == GDigits(b, IF read(b, i) = "-" THEN i + 1 ELSE i)

\* the 1-based position of the first quote after position 1 with an even run of
\* backslashes before it, 0 if there is none
BackslashRun(b, k) ==
    CHOOSE n \in 0..(k - 2) :
        /\ \A j \in 1..n : b[k - j] = "\\"
        /\ (n = k - 2 \/ b[k - n - 1] # "\\")
ClosingQuote(b) ==
    LET cands == {k \in 2..Len(b) : b[k] = "\"" /\ BackslashRun(b, k) % 2 = 0}
    IN  IF cands = {} THEN 0 ELSE SetMin(cands)
DotsAt(b, i) == i + 3 <= Len(b) /\ SubSeq(b, i + 1, i + 3) = <<".", ".", ".">>

GQuoted(b, i) ==
    IF read(b, i) # "\"" THEN {}
    ELSE UNION {{i + k} \cup (IF DotsAt(b, i + k) THEN {i + k + 3} ELSE {}) :
                    k \in {ClosingQuote(SubSeq(b, i + 1, Len(b)))} \ {0}}

RECURSIVE GFlagTail(_, _)
\* ('|' (symbol | integer))+ after a symbol that ended at e
GFlagTail(b, e) ==
    IF read(b, e) # "|" THEN {}
    ELSE UNION {{x} \cup GFlagTail(b, x) : x \in GSymbol(b, e + 1) \cup GInteger(b, e + 1)}

GProduct(b, i) ==
    UNION {GInteger(b, e + 1) : e \in {x \in GInteger(b, i) : read(b, x) = "*"}}

RECURSIVE GValue(_, _), GArg(_, _), GArgSeq(_, _), GArgList(_, _), GStructBody(_, _)

\* token '(' arglist ')' or '[' arglist ']' with the opening token ending at e
GEnclosed(b, e, close) ==
    {GSkip(b, x) + 1 : x \in {y \in GArgList(b, e) : read(b, GSkip(b, y)) = close}}

GField(b, i) ==
    UNION {GValue(b, GSkip(b, GSkip(b, j) + 1)) :
               j \in {x \in GSymbol(b, i) : read(b, GSkip(b, x)) = "="}}

\* fields separated by commas, the last of them possibly the elision marker
GStructBody(b, i) ==
    UNION {{p} \cup (IF DotsAt(b, p) THEN {p + 3} ELSE {})
               \cup UNION {{e} \cup (IF read(b, GSkip(b, e)) = ","
                                     THEN GStructBody(b, GSkip(b, e) + 1) ELSE {}) :
                               e \in GField(b, p)} :
           p \in {GSkip(b, i)}}

GStruct(b, i) ==
    IF read(b, i) # "{" THEN {}
    ELSE {GSkip(b, x) + 1 : x \in {y \in GStructBody(b, i + 1) : read(b, GSkip(b, y)) = "}"}}

GValue(b, i) ==
    GInteger(b, i) \cup GProduct(b, i) \cup GQuoted(b, i) \cup GSymbol(b, i)
      \cup UNION {GFlagTail(b, j) : j \in GSymbol(b, i)}
      \cup UNION {GEnclosed(b, j + 1, ")") : j \in {x \in GSymbol(b, i) : read(b, x) = "("}}
      \cup (IF read(b, i) = "[" THEN GEnclosed(b, i + 1, "]") ELSE {})
      \cup GStruct(b, i)

GArg(b, i) == GValue(b, i) \cup GField(b, i)

\* arg (',' arg)*
GArgSeq(b, i) ==
    UNION {{e} \cup (IF read(b, GSkip(b, e)) = ","
                     THEN GArgSeq(b, GSkip(b, e) + 1) ELSE {}) :
               e \in GArg(b, GSkip(b, i))}

GArgList(b, i) == {i} \cup GArgSeq(b, i)

\* some prefix of the line is  symbol '(' arglist ')' '=' integer
GLine(b) ==
    \E j \in GSymbol(b, 0) :
        /\ read(b, GSkip(b, j)) = "("
        /\ \E e \in GEnclosed(b, GSkip(b, j) + 1, ")") :
               /\ read(b, GSkip(b, e)) = "="
               /\ GInteger(b, GSkip(b, GSkip(b, e) + 1)) # {}

-----------------------------------------------------------------------------
(* Properties of the parser, checked under ParserSpec.                     *)

Called == ret.st # "New"

\* C2: parse_syscall is total: on every line it returns a record and never panics,
\* numeric literals that overflow a 64-bit signed integer included.
C2_ParseSyscallTotal ==
    (tcase.kind = "line" /\ Called) => ret.st = "Ok"

\* the leading symbol of a line, read off the text: the longest run of name characters
\* with an alphabetic first, or nothing when that run is not valid UTF-8
NameChars == Lower \cup Upper \cup DecDigits \cup {"_", "xC3"}
LeadingSymbol(b) ==
    LET run == SubSeq(b, 1, RunEnd(b, 0, NameChars))
    IN  IF run # <<>> /\ run[1] \notin DecDigits \cup {"_"} /\ Utf8Valid(run)
        THEN run ELSE <<>>

\* C3: when parsing fails with an error, parse_syscall returns a failure record:
\* error_details present with the whole line as fulltext, no arguments, return value 0,
\* and as name the leading symbol if it was read, the empty string otherwise.
C3_FailureRecord ==
    (tcase.kind = "line" /\ Called /\ parse(bytes).st = "Err") =>
        /\ ret.st = "Ok"
        /\ ret.v.error_details # None
        /\ ret.v.error_details[1].fulltext = bytes
        /\ ret.v.args = <<>>
        /\ ret.v.return_value = I64Zero
        /\ ret.v.name = LeadingSymbol(bytes)

C3_PartialLine ==
    /\ tcase.kind = "line" /\ bytes = T_partial /\ Called /\ ret.st = "Ok"
    /\ ret.v.name = <<"w", "r", "i", "t", "e">>
    /\ ret.v.error_details # None
    /\ ret.v.error_details[1].fulltext = T_partial

\* C4: a record with no error_details comes from a line a prefix of which matches
\* symbol '(' arglist ')' '=' integer, with commas between the arguments, no empty
\* argument, and at least one digit in the return value.
C4_FullyParsedOrFailure ==
    (tcase.kind = "line" /\ Called /\ ret.st = "Ok" /\ ret.v.error_details = None) =>
        GLine(bytes)

\* the i64 of an integer of small magnitude
I64Of(n) ==
    <<n % Limb, (n \div Limb) % Limb,
      IF n < 0 THEN Limb - 1 ELSE 0, IF n < 0 THEN Limb - 1 ELSE 0>>

RECURSIVE DigitsValue(_, _)
DigitsValue(digits, radix) ==
    IF digits = <<>> THEN 0
    ELSE DigitsValue(SubSeq(digits, 1, Len(digits) - 1), radix) * radix
           + DigitVal(digits[Len(digits)])

\* C7: consume_i64 gives every literal that fits an i64 its value: '-' negates, '0x' is
\* hexadecimal, a leading '0' before another digit is octal, otherwise decimal; and the
\* index ends on the first character after the literal.
C7_LiteralValue ==
    /\ (tcase.kind = "i64" /\ Called) =>
           /\ ret.st = "Ok"
           /\ ret.v = I64Of((IF tcase.src.neg THEN -1 ELSE 1)
                              * DigitsValue(tcase.src.digits, tcase.src.radix))
           /\ index = Len(LiteralText(tcase.src))
    /\ (tcase.kind = "i64big" /\ Called) =>
           /\ ret.st = "Ok"
           /\ ret.v = tcase.src.expect
           /\ index = Len(bytes)

\* C8: consume_quoted returns the text between the opening quote and the first quote not
\* preceded by an odd run of backslashes, verbatim; truncated is set exactly when '...'
\* follows that quote, and the index ends after the quote and the '...'.
C8_QuotedVerbatim ==
    (tcase.kind = "quoted" /\ Called) =>
        \E k \in {ClosingQuote(bytes)} :
            IF k = 0 THEN ret.st = "Err"
            ELSE /\ ret.st = "Ok"
                 /\ ret.v.text = SubSeq(bytes, 2, k - 1)
                 /\ ret.v.truncated = DotsAt(bytes, k)
                 /\ index = IF DotsAt(bytes, k) THEN k + 3 ELSE k

C8_EscapedQuoteTruncated ==
    /\ tcase.kind = "quoted" /\ Called /\ ret.st = "Ok"
    /\ ret.v.text = <<"a", "\\", "\"", "b">>
    /\ ret.v.truncated
    /\ index = 9

\* the fields of a struct case that carry the name n, in textual order
FieldsNamed(fields, n) == SelectSeq(fields, LAMBDA f : f.name = n)

\* C9: consume_struct returns a mapping whose keys are exactly the field names written,
\* '...' adding none; each key maps to the value of the last field of that name.
C9_StructFields ==
    (tcase.kind = "struct" /\ Called) =>
        /\ ret.st = "Ok"
        /\ index = Len(bytes)
        /\ DOMAIN ret.v = {tcase.src.fields[k].name : k \in 1..Len(tcase.src.fields)}
        /\ \A n \in DOMAIN ret.v :
               \E same \in {FieldsNamed(tcase.src.fields, n)} :
                   ret.v[n] = positional(same[Len(same)].val.value)

C9_DuplicateElided ==
    /\ tcase.kind = "struct" /\ Called /\ ret.st = "Ok"
    /\ tcase.src.elided
    /\ Len(tcase.src.fields) = 3
    /\ tcase.src.fields[1].name = tcase.src.fields[3].name
    /\ tcase.src.fields[1].val # tcase.src.fields[3].val
    /\ Cardinality(DOMAIN ret.v) = 2
    /\ ret.v[tcase.src.fields[1].name] = positional(tcase.src.fields[3].val.value)

\* C10: an argument that starts with a letter is a symbol followed by one deciding
\* character: '|' a FlagSet led by the symbol with the alternatives in textual order,
\* '=' a named argument with the value after it, '(' a FunctionCall with the enclosed
\* arguments, anything else a positional Symbol; and a record's arguments are in the
\* order of the line.
C10_SymbolDispatch ==
    /\ (tcase.kind = "arg" /\ Called) =>
           ret = Ok(Len(tcase.src.form.text), Some(tcase.src.form.arg))
    /\ (tcase.kind = "args" /\ Called) =>
           /\ ret.st = "Ok"
           /\ ret.v.error_details = None
           /\ ret.v.args = [k \in 1..Len(tcase.src) |-> tcase.src[k].arg]

C10_FlagSetThenNamed ==
    /\ tcase.kind = "args" /\ Called /\ ret.st = "Ok"
    /\ Len(ret.v.args) = 2
    /\ ret.v.args[1] = positional(FlagSet(<<FlagSymbol(<<"A">>), FlagSymbol(<<"B">>),
                                            FlagBits(I64(7))>>))
    /\ ret.v.args[2] = named(<<"f", "d">>, Number(I64(3)))

-----------------------------------------------------------------------------
(* The pipeline: strace() run by the producer against the tracer child,    *)
(* and read_messages() run by the consumer on the other end of the channel.*)
(* One iteration of the producer's loop is one step.                       *)

MaxLines == 2
MaxStdout == 2
StdoutPipeCap == 1

Nl(l) == l \o <<"\n">>
L_exited == Nl(<<"+", "+", "+", " ", "e", "x", "i", "t", "e", "d", " ", "w", "i", "t", "h", " ",
                 "0", " ", "+", "+", "+">>)
L_signal == Nl(<<"-", "-", "-", " ", "S", "I", "G", "C", "H", "L", "D", " ", "-", "-", "-">>)
L_overflow == Nl(<<"a", "(">> \o DecTooLong \o <<")", " ", "=", " ", "0">>)
L_not_utf8 == Nl(<<"a", "(", "\"", "xC3", "\"", ")", " ", "=", " ", "0">>)

\* what the tracer may write to its standard error, a line at a time
TraceLines == {Nl(T_close), Nl(T_partial), L_exited, L_signal, L_overflow, L_not_utf8}

\* line.starts_with("+++") || line.starts_with("---")
IsMarker(line) ==
    Len(line) >= 3 /\ SubSeq(line, 1, 3) \in {<<"+", "+", "+">>, <<"-", "-", "-">>}

ParserIdle == bytes = <<>> /\ index = 0 /\ current_name = <<>> /\ ret = New /\ tcase = NoCase

\* parse_syscall is a function of the line and of the build alone: it is applied once to
\* every line of TraceLines, and the producer looks the line it has read up
ParseTable == [l \in TraceLines |-> parse_syscall(l)]

Init == overflow_checks \in BOOLEAN /\ parsed = ParseTable /\ ParserIdle /\ PipeIdle

\* the producer returns r: tx, moved into strace(), is dropped with its frame
Return(r) == pc' = "done" /\ result' = r /\ tx' = "dropped"

\* Command::new("strace")...spawn() succeeds; stderr and stdout are both pipes
SpawnOk ==
    /\ pc = "spawn"
    /\ pc' = "loop" /\ child' = "running"
    /\ UNCHANGED <<overflow_checks, parsed, parserVars, result, tx, rx, chan, received, linesRead, sent,
                   exitCode, stderrPipe, stdoutPipe, stdoutWritten, terminal, nWritten>>

SpawnFail ==
    /\ pc = "spawn"
    /\ Return("unable to spawn strace")
    /\ UNCHANGED <<overflow_checks, parsed, parserVars, rx, chan, received, linesRead, sent, child,
                   exitCode, stderrPipe, stdoutPipe, stdoutWritten, terminal, nWritten>>

\* the tracer writes a line of its report
ChildWriteStderr ==
    /\ child = "running" /\ nWritten < MaxLines
    /\ \E line \in TraceLines : stderrPipe' = Append(stderrPipe, line)
    /\ nWritten' = nWritten + 1
    /\ UNCHANGED <<overflow_checks, parsed, parserVars, pc, result, tx, rx, chan, received, linesRead,
                   sent, child, exitCode, stdoutPipe, stdoutWritten, terminal>>

\* the traced command writes to its standard output, which is the pipe of Stdio::piped():
\* nothing reads that pipe, and a write to it when it is full does not return
ChildWriteStdout ==
    /\ child = "running" /\ stdoutWritten < MaxStdout
    /\ IF stdoutPipe < StdoutPipeCap
       THEN stdoutPipe' = stdoutPipe + 1 /\ stdoutWritten' = stdoutWritten + 1 /\ child' = child
       ELSE child' = "blocked" /\ UNCHANGED <<stdoutPipe, stdoutWritten>>
    /\ UNCHANGED <<overflow_checks, parsed, parserVars, pc, result, tx, rx, chan, received, linesRead,
                   sent, exitCode, stderrPipe, terminal, nWritten>>

ChildExit ==
    /\ child = "running"
    /\ child' = "exited"
    /\ \E status \in {0, 1} : exitCode' = status
    /\ UNCHANGED <<overflow_checks, parsed, parserVars, pc, result, tx, rx, chan, received, linesRead,
                   sent, stderrPipe, stdoutPipe, stdoutWritten, terminal, nWritten>>

\* reader.read_line(&mut line) returned n > 0 with the next line
ReadLine(line) ==
    /\ pc = "loop" /\ stderrPipe # <<>>
    /\ line \in {l \in {Head(stderrPipe)} : Utf8Valid(l)}
    /\ stderrPipe' = Tail(stderrPipe)
    /\ linesRead' = Append(linesRead, line)

\* a marker line: continue
ProducerMarker ==
    /\ \E line \in TraceLines : ReadLine(line) /\ IsMarker(line)
    /\ UNCHANGED <<overflow_checks, parsed, parserVars, pc, result, tx, rx, chan, received, sent, child,
                   exitCode, stdoutPipe, stdoutWritten, terminal, nWritten>>

\* tx.send(msg) as a SyncSender of capacity 1 would do it: it waits while the channel is full
ProducerForward_bounded ==
    /\ \E line \in TraceLines :
           /\ ReadLine(line) /\ ~IsMarker(line)
           /\ \E r \in {parsed[line]} :
                  /\ r.st = "Ok" /\ rx = "open" /\ Len(chan) < 1
                  /\ chan' = Append(chan, r.v)
                  /\ sent' = Append(sent, r.v)
    /\ UNCHANGED <<overflow_checks, parsed, parserVars, pc, result, tx, rx, received, child,
                   exitCode, stdoutPipe, stdoutWritten, terminal, nWritten>>

\* parse_syscall(&line), then tx.send(msg) to a channel whose receiver exists
ProducerForward ==
    /\ \E line \in TraceLines :
           /\ ReadLine(line) /\ ~IsMarker(line)
           /\ \E r \in {parsed[line]} :
                  /\ r.st = "Ok" /\ rx = "open"
                  /\ chan' = Append(chan, r.v)
                  /\ sent' = Append(sent, r.v)
    /\ UNCHANGED <<overflow_checks, parsed, parserVars, pc, result, tx, rx, received, child,
                   exitCode, stdoutPipe, stdoutWritten, terminal, nWritten>>

\* tx.send(msg) fails and the failure is dropped: the loop goes on
ProducerSendFail_ignored ==
    /\ \E line \in TraceLines :
           /\ ReadLine(line) /\ ~IsMarker(line)
           /\ parsed[line].st = "Ok" /\ rx = "dropped"
    /\ UNCHANGED <<overflow_checks, parsed, parserVars, pc, result, tx, rx, chan, received, sent,
                   child, exitCode, stdoutPipe, stdoutWritten, terminal, nWritten>>

\* tx.send(msg) fails, the receiver being gone: the message is handed back in the error
ProducerSendFail ==
    /\ \E line \in TraceLines :
           /\ ReadLine(line) /\ ~IsMarker(line)
           /\ parsed[line].st = "Ok" /\ rx = "dropped"
    /\ Return("transmit error")
    /\ UNCHANGED <<overflow_checks, parsed, parserVars, rx, chan, received, sent, child,
                   exitCode, stdoutPipe, stdoutWritten, terminal, nWritten>>

\* parse_syscall panics: the producer's thread unwinds out of strace()
ProducerPanic ==
    /\ \E line \in TraceLines :
           /\ ReadLine(line) /\ ~IsMarker(line)
           /\ parsed[line].st = "Panic"
    /\ Return("panic")
    /\ UNCHANGED <<overflow_checks, parsed, parserVars, rx, chan, received, sent, child,
                   exitCode, stdoutPipe, stdoutWritten, terminal, nWritten>>

\* read_line fails and the failure is passed over: the loop goes on with the next line
ProducerReadError_line_skipped ==
    /\ pc = "loop" /\ stderrPipe # <<>>
    /\ Head(stderrPipe) \in {l \in TraceLines : ~Utf8Valid(l)}
    /\ stderrPipe' = Tail(stderrPipe)
    /\ UNCHANGED <<overflow_checks, parsed, parserVars, pc, result, tx, rx, chan, received, linesRead,
                   sent, child, exitCode, stdoutPipe, stdoutWritten, terminal, nWritten>>

\* read_line fails: the bytes up to the newline are not UTF-8
ProducerReadError ==
    /\ pc = "loop" /\ stderrPipe # <<>>
    /\ Head(stderrPipe) \in {l \in TraceLines : ~Utf8Valid(l)}
    /\ stderrPipe' = Tail(stderrPipe)
    /\ Return("unable to read output from strace")
    /\ UNCHANGED <<overflow_checks, parsed, parserVars, rx, chan, received, linesRead, sent, child,
                   exitCode, stdoutPipe, stdoutWritten, terminal, nWritten>>

\* read_line returns 0: the pipe is empty and its write end is closed
ProducerEof ==
    /\ pc = "loop" /\ stderrPipe = <<>> /\ child = "exited"
    /\ pc' = "wait"
    /\ UNCHANGED <<overflow_checks, parsed, parserVars, result, tx, rx, chan, received, linesRead, sent,
                   child, exitCode, stderrPipe, stdoutPipe, stdoutWritten, terminal, nWritten>>

\* child.wait() with the exit status not looked at
ProducerWait_status_ignored ==
    /\ pc = "wait" /\ child = "exited"
    /\ child' = "reaped"
    /\ Return("ok")
    /\ UNCHANGED <<overflow_checks, parsed, parserVars, rx, chan, received, linesRead, sent,
                   exitCode, stderrPipe, stdoutPipe, stdoutWritten, terminal, nWritten>>

\* child.wait() gives the exit status
ProducerWait ==
    /\ pc = "wait" /\ child = "exited"
    /\ child' = "reaped"
    /\ Return(IF exitCode = 0 THEN "ok" ELSE "strace returned a non-zero exit code")
    /\ UNCHANGED <<overflow_checks, parsed, parserVars, rx, chan, received, linesRead, sent,
                   exitCode, stderrPipe, stdoutPipe, stdoutWritten, terminal, nWritten>>

\* child.wait() fails
ProducerWaitFail ==
    /\ pc = "wait" /\ child = "exited"
    /\ Return("failed to wait for strace to terminate")
    /\ UNCHANGED <<overflow_checks, parsed, parserVars, rx, chan, received, linesRead, sent, child,
                   exitCode, stderrPipe, stdoutPipe, stdoutWritten, terminal, nWritten>>

\* read_messages: the next msg of rx.iter()
ConsumerRecv ==
    /\ rx = "open" /\ chan # <<>>
    /\ received' = Append(received, Head(chan))
    /\ chan' = Tail(chan)
    /\ UNCHANGED <<overflow_checks, parsed, parserVars, pc, result, tx, rx, linesRead, sent, child,
                   exitCode, stderrPipe, stdoutPipe, stdoutWritten, terminal, nWritten>>

\* rx.iter() ends, the channel being empty with its sender dropped; rx goes with the frame
ConsumerEnd ==
    /\ rx = "open" /\ chan = <<>> /\ tx = "dropped"
    /\ rx' = "dropped"
    /\ UNCHANGED <<overflow_checks, parsed, parserVars, pc, result, tx, chan, received, linesRead, sent,
                   child, exitCode, stderrPipe, stdoutPipe, stdoutWritten, terminal, nWritten>>

\* the thread that is to own rx is never started: rx is dropped with what the channel holds
ConsumerDropped ==
    /\ rx = "open" /\ tx = "open" /\ received = <<>>
    /\ rx' = "dropped" /\ chan' = <<>>
    /\ UNCHANGED <<overflow_checks, parsed, parserVars, pc, result, tx, received, linesRead, sent,
                   child, exitCode, stderrPipe, stdoutPipe, stdoutWritten, terminal, nWritten>>

Next ==
    \/ SpawnOk
    \/ SpawnFail
    \/ ChildWriteStderr
    \/ ChildWriteStdout
    \/ ChildExit
    \/ ProducerMarker
    \/ ProducerForward
    \/ ProducerSendFail
    \/ ProducerPanic
    \/ ProducerReadError
    \/ ProducerEof
    \/ ProducerWait
    \/ ProducerWaitFail
    \/ ConsumerRecv
    \/ ConsumerEnd
    \/ ConsumerDropped

Spec == Init /\ [][Next]_vars

-----------------------------------------------------------------------------
(* Properties of the pipeline, checked under Spec.                         *)

\* the messages of a sequence of lines: parse_syscall of each line that is no marker
Accepted(lines) == SelectSeq(lines, LAMBDA l : ~IsMarker(l))
Expected(lines) == [k \in 1..Len(Accepted(lines)) |-> parse_syscall(Accepted(lines)[k]).v]

\* C1: while the consumer holds the receiver, the messages it has received followed by
\* those still in the channel are parse_syscall of the lines read that are no markers,
\* one message a line, in the order of the lines.
C1_MessagesMatchLines ==
    rx = "open" => received \o chan = Expected(linesRead)

NonZeroExit == "strace returned a non-zero exit code"

\* C5: the producer decides its result after forwarding: at end of input every line read
\* has been sent; the exit status examined, 0 gives Ok and anything else the error
\* 'strace returned a non-zero exit code'; the sender is dropped with the result, and
\* nothing is sent once the result is decided.
C5_ResultAfterForwarding ==
    /\ [](/\ pc = "wait" => (stderrPipe = <<>> /\ sent = Expected(linesRead))
          /\ child = "reaped" => result = (IF exitCode = 0 THEN "ok" ELSE NonZeroExit)
          /\ result \in {"ok", NonZeroExit} => (child = "reaped" /\ sent = Expected(linesRead))
          /\ result # "none" => (tx = "dropped" /\ pc = "done"))
    /\ [][result # "none" => (sent' = sent /\ result' = result /\ tx' = tx)]_vars

C5_NonZeroAfterTwoLines ==
    /\ pc = "done" /\ result = NonZeroExit /\ exitCode = 1 /\ tx = "dropped"
    /\ Len(sent) = 2
    /\ sent[1].error_details = None
    /\ sent[2].error_details # None

\* C6: what the traced command writes to its standard output reaches the terminal.
C6_StdoutOnTerminal ==
    terminal = stdoutWritten

ReadError == "unable to read output from strace"

\* the next read of the producer takes a line that is not UTF-8
FailingRead ==
    /\ pc = "loop" /\ stderrPipe # <<>>
    /\ Head(stderrPipe) \in {l \in {Head(stderrPipe)} : ~Utf8Valid(l)}
    /\ stderrPipe' = Tail(stderrPipe)

\* C11: a failing read of the diagnostic stream is fatal: the producer returns the read
\* error with the sender dropped, sends nothing for the failing read nor afterwards and
\* reads no further; what was sent before stays in the channel, in order, until the
\* consumer takes it, and the consumer ends only on an empty channel.
C11_ReadErrorFatal ==
    /\ [][FailingRead => (result' = ReadError /\ pc' = "done" /\ sent' = sent /\ chan' = chan)]_vars
    /\ [](result = ReadError =>
             /\ pc = "done" /\ tx = "dropped"
             /\ sent = Expected(linesRead)
             /\ rx = "open" => received \o chan = sent)
    /\ [][result = ReadError =>
             /\ result' = result /\ sent' = sent /\ linesRead' = linesRead
             /\ Len(stderrPipe') >= Len(stderrPipe)
             /\ rx = "open" => (/\ received' \o chan' = received \o chan
                                /\ Len(received') >= Len(received)
                                /\ rx' = "dropped" => chan = <<>>)]_vars

C11_SentBeforeReadError ==
    /\ result = ReadError /\ rx = "open"
    /\ Len(linesRead) = 1 /\ Len(sent) = 1
    /\ chan = sent /\ received = <<>>

-----------------------------------------------------------------------------
(* Scheduling: the producer's thread keeps running, and the tracer, which  *)
(* runs a command that ends, exits unless it is held in a write. Nothing   *)
(* is assumed of the consumer.                                             *)

ProducerStep ==
    \/ SpawnOk
    \/ SpawnFail
    \/ ProducerMarker
    \/ ProducerForward
    \/ ProducerSendFail
    \/ ProducerPanic
    \/ ProducerReadError
    \/ ProducerEof
    \/ ProducerWait
    \/ ProducerWaitFail

FairSpec == Spec /\ WF_vars(ProducerStep) /\ WF_vars(ChildExit)

\* the producer is at tx.send(msg) with a message for a consumer that holds the receiver
SendDue ==
    /\ pc = "loop" /\ stderrPipe # <<>> /\ rx = "open"
    /\ Head(stderrPipe) \in {l \in {Head(stderrPipe)} :
                                Utf8Valid(l) /\ ~IsMarker(l) /\ parsed[l].st = "Ok"}

\* C12: the producer never waits for the consumer: a send to a channel whose receiver
\* exists can always be done at once, whatever the channel holds; every accepted line is
\* forwarded by the time the producer returns; and once the tracer has exited the producer
\* returns its result with no step of the consumer needed.
C12_ProducerNeverBlocks ==
    /\ [](SendDue => ENABLED ProducerForward)
    /\ []((result \in {"ok", NonZeroExit} /\ rx = "open") =>
              received \o chan = Expected(linesRead))
    /\ (child = "exited" ~> result # "none")

C12_AllQueuedAtReturn ==
    /\ result = "ok" /\ rx = "open"
    /\ received = <<>> /\ Len(chan) >= 2 /\ chan = sent

-----------------------------------------------------------------------------
(* Skipping between tokens, checked under ParserSpec.                       *)

\* where skip := (whitespace | comment)* ends when started at i, a comment that is never
\* closed running to the end of input
SkipEnd(b, i) ==
    IF read_two(b, GSkip(b, i)) = <<"/", "*">> THEN Len(b) ELSE GSkip(b, i)

\* C13: called at any position, whitespace_comments leaves the index after every
\* whitespace character and comment that follow, in any order and number: on the first
\* character that is neither whitespace nor the start of a comment, or at end of input.
C13_SkipsAll ==
    (tcase.kind = "skip" /\ Called) =>
        /\ index = SkipEnd(bytes, tcase.src.at)
        /\ \/ index = Len(bytes)
           \/ /\ ~is_ascii_whitespace(read(bytes, index))
              /\ read_two(bytes, index) # <<"/", "*">>

-----------------------------------------------------------------------------
(* Termination of the pipeline, checked under FairSpec.                     *)

\* the producer is in read_line on an empty diagnostic stream while the child is held in a
\* write to its standard output
Deadlocked == pc = "loop" /\ stderrPipe = <<>> /\ child = "blocked"

\* C14: the producer and the child never wait for each other: no state has the producer
\* waiting on the diagnostic stream with the child held in a write to a captured stream,
\* and once the child is spawned the producer comes to return.
C14_NoDeadlock ==
    /\ [](~Deadlocked)
    /\ (child = "running" ~> result # "none")

-----------------------------------------------------------------------------
(* A consumer that is gone, checked under Spec.                             *)

TransmitError == "transmit error"

\* the producer reads a line it has a message for, and the receiver has been dropped
FailingSend ==
    /\ pc = "loop" /\ stderrPipe # <<>> /\ rx = "dropped"
    /\ Head(stderrPipe) \in {l \in {Head(stderrPipe)} :
                                Utf8Valid(l) /\ ~IsMarker(l) /\ parsed[l].st = "Ok"}
    /\ stderrPipe' = Tail(stderrPipe)

\* C15: a send to a channel whose receiver is dropped ends the producer at that line: it
\* returns 'transmit error' in that step with nothing sent and the child not waited for,
\* and afterwards reads no line, sends no message and never reaps the child.
C15_TransmitErrorStops ==
    /\ [][FailingSend => (/\ result' = TransmitError /\ pc' = "done" /\ tx' = "dropped"
                          /\ sent' = sent /\ chan' = chan /\ child' = child)]_vars
    /\ [](result = TransmitError =>
             pc = "done" /\ tx = "dropped" /\ rx = "dropped" /\ child # "reaped")
    /\ [][result = TransmitError =>
             /\ result' = result /\ sent' = sent /\ chan' = chan
             /\ linesRead' = linesRead /\ Len(stderrPipe') >= Len(stderrPipe)
             /\ child' # "reaped"]_vars

C15_ChildLeftRunning ==
    /\ result = TransmitError /\ rx = "dropped"
    /\ child = "running" /\ stderrPipe # <<>>
    /\ Len(linesRead) = 1 /\ sent = <<>>

====
